---------------------------- MODULE Spec2Model ----------------------------
(***************************************************************************)
(* Model of the sticky-disk delete action (src/src/main.ts and its bundle  *)
(* src/dist/main.bundle.mjs): input and environment validation in main,    *)
(* the DELETE request built by deleteStickyDiskByKey and the retry loop of *)
(* retryWithBackoff.                                                       *)
(*                                                                         *)
(* JavaScript strings are sequences of one-character strings, so that      *)
(* includes(), trim(), === and template concatenation are computed rather  *)
(* than assumed.  An environment variable is a record [set, val]: unset    *)
(* (undefined) or set to a string, possibly the empty one.                 *)
(***************************************************************************)
EXTENDS Integers, Sequences, FiniteSets, TLC

VARIABLES
    env,              \* process.env, fixed during a run
    maxRetries,       \* retryWithBackoff parameter (default 5)
    initialBackoffMs, \* retryWithBackoff parameter (default 200)
    pc,               \* where main is suspended: start, fetch, text, json, sleep, done
    call,             \* <<>> or <<c>>: the arguments of the running deleteStickyDiskByKey
    attempt,          \* loop counter of retryWithBackoff
    lastError,        \* local variable lastError of retryWithBackoff
    response,         \* status of the Response whose body is being read (0: none)
    thrown,           \* <<>> or <<e>>: the error the latest operation() call threw
    requests,         \* the arguments of every fetch() call, in order
    trace,            \* observable events in order: stdout lines, fetch, setTimeout, exitCode
    exitCode,         \* process.exitCode: <<>> (undefined) or <<1>>
    inFlight,         \* fetch() calls whose response has not been consumed or failed yet
    timers            \* setTimeout() calls whose callback has not run yet

vars == <<env, maxRetries, initialBackoffMs, pc, call, attempt, lastError,
          response, thrown, requests, trace, exitCode, inFlight, timers>>

-----------------------------------------------------------------------------
(* String literals of the source.                                          *)

\* "staging"
STR_staging ==
    <<"s","t","a","g","i","n","g">>

\* "arm"
STR_arm ==
    <<"a","r","m">>

\* "arm64"
STR_arm64 ==
    <<"a","r","m","6","4">>

\* "amd64"
STR_amd64 ==
    <<"a","m","d","6","4">>

\* "true"
STR_true ==
    <<"t","r","u","e">>

\* "429"
STR_429 ==
    <<"4","2","9">>

\* "https://stagingapi.blacksmith.sh"
STR_stagingUrl ==
    <<"h","t","t","p","s",":","/","/","s","t","a","g","i","n","g","a","p","i",".","b","l","a","c","k","s","m","i","t","h",".","s","h">>

\* "https://api.blacksmith.sh"
STR_productionUrl ==
    <<"h","t","t","p","s",":","/","/","a","p","i",".","b","l","a","c","k","s","m","i","t","h",".","s","h">>

\* "/stickydisks"
STR_path ==
    <<"/","s","t","i","c","k","y","d","i","s","k","s">>

\* "DELETE"
STR_DELETE ==
    <<"D","E","L","E","T","E">>

\* "Bearer "
STR_Bearer ==
    <<"B","e","a","r","e","r"," ">>

\* "application/json"
STR_applicationJson ==
    <<"a","p","p","l","i","c","a","t","i","o","n","/","j","s","o","n">>

\* "stickydisk"
STR_stickydisk ==
    <<"s","t","i","c","k","y","d","i","s","k">>

\* "dockerfile"
STR_dockerfile ==
    <<"d","o","c","k","e","r","f","i","l","e">>

\* "::error::"
STR_errorPrefix ==
    <<":",":","e","r","r","o","r",":",":">>

\* "No error occurred"
MSG_noError ==
    <<"N","o"," ","e","r","r","o","r"," ","o","c","c","u","r","r","e","d">>

\* "Failed to delete sticky disk: "
MSG_failedPrefix ==
    <<"F","a","i","l","e","d"," ","t","o"," ","d","e","l","e","t","e"," ","s","t","i","c","k","y"," ","d","i","s","k",":"," ">>

\* " - "
MSG_dash ==
    <<" ","-"," ">>

\* "Request failed (attempt "
MSG_retry1 ==
    <<"R","e","q","u","e","s","t"," ","f","a","i","l","e","d"," ","(","a","t","t","e","m","p","t"," ">>

\* "/"
MSG_retry2 ==
    <<"/">>

\* "). Retrying in "
MSG_retry3 ==
    <<")","."," ","R","e","t","r","y","i","n","g"," ","i","n"," ">>

\* "ms..."
MSG_retry4 ==
    <<"m","s",".",".",".">>

\* "Using Blacksmith API URL: "
MSG_usingUrl ==
    <<"U","s","i","n","g"," ","B","l","a","c","k","s","m","i","t","h"," ","A","P","I"," ","U","R","L",":"," ">>

\* "Deleting sticky disk with key: "
MSG_deletingKey ==
    <<"D","e","l","e","t","i","n","g"," ","s","t","i","c","k","y"," ","d","i","s","k"," ","w","i","t","h"," ","k","e","y",":"," ">>

\* "Repository: "
MSG_repository ==
    <<"R","e","p","o","s","i","t","o","r","y",":"," ">>

\* "Region: "
MSG_region ==
    <<"R","e","g","i","o","n",":"," ">>

\* "Architecture: "
MSG_architecture ==
    <<"A","r","c","h","i","t","e","c","t","u","r","e",":"," ">>

\* "Type: "
MSG_type ==
    <<"T","y","p","e",":"," ">>

\* "Successfully deleted sticky disk: "
MSG_success ==
    <<"S","u","c","c","e","s","s","f","u","l","l","y"," ","d","e","l","e","t","e","d"," ","s","t","i","c","k","y"," ","d","i","s","k",":"," ">>

\* "Entity ID: "
MSG_entityId ==
    <<"E","n","t","i","t","y"," ","I","D",":"," ">>

\* "Deleting Docker cache from sticky disk"
MSG_deletingDocker ==
    <<"D","e","l","e","t","i","n","g"," ","D","o","c","k","e","r"," ","c","a","c","h","e"," ","f","r","o","m"," ","s","t","i","c","k","y"," ","d","i","s","k">>

\* "Only one of 'delete-key' or 'delete-docker-cache' can be specified"
MSG_onlyOne ==
    <<"O","n","l","y"," ","o","n","e"," ","o","f"," ","'","d","e","l","e","t","e","-","k","e","y","'"," ","o","r"," ","'","d","e","l","e","t","e","-","d","o","c","k","e","r","-","c","a","c","h","e","'"," ","c","a","n"," ","b","e"," ","s","p","e","c","i","f","i","e","d">>

\* "Either 'delete-key' or 'delete-docker-cache' must be specified"
MSG_eitherOne ==
    <<"E","i","t","h","e","r"," ","'","d","e","l","e","t","e","-","k","e","y","'"," ","o","r"," ","'","d","e","l","e","t","e","-","d","o","c","k","e","r","-","c","a","c","h","e","'"," ","m","u","s","t"," ","b","e"," ","s","p","e","c","i","f","i","e","d">>

\* "BLACKSMITH_STICKYDISK_TOKEN environment variable is required. This should be set by the Blacksmith runner."
MSG_tokenRequired ==
    <<"B","L","A","C","K","S","M","I","T","H","_","S","T","I","C","K","Y","D","I","S","K","_","T","O","K","E","N"," ","e","n","v","i","r","o","n","m","e","n","t"," ","v","a","r","i","a","b","l","e"," ","i","s"," ","r","e","q","u","i","r","e","d","."," ","T","h","i","s"," ","s","h","o","u","l","d"," ","b","e"," ","s","e","t"," ","b","y"," ","t","h","e"," ","B","l","a","c","k","s","m","i","t","h"," ","r","u","n","n","e","r",".">>

\* "GITHUB_REPO_NAME or GITHUB_REPOSITORY environment variable is required. This should be set by the Blacksmith runner or GitHub Actions."
MSG_repoRequired ==
    <<"G","I","T","H","U","B","_","R","E","P","O","_","N","A","M","E"," ","o","r"," ","G","I","T","H","U","B","_","R","E","P","O","S","I","T","O","R","Y"," ","e","n","v","i","r","o","n","m","e","n","t"," ","v","a","r","i","a","b","l","e"," ","i","s"," ","r","e","q","u","i","r","e","d","."," ","T","h","i","s"," ","s","h","o","u","l","d"," ","b","e"," ","s","e","t"," ","b","y"," ","t","h","e"," ","B","l","a","c","k","s","m","i","t","h"," ","r","u","n","n","e","r"," ","o","r"," ","G","i","t","H","u","b"," ","A","c","t","i","o","n","s",".">>

\* "BLACKSMITH_INSTALLATION_MODEL_ID environment variable is required. This should be set by the Blacksmith runner."
MSG_modelRequired ==
    <<"B","L","A","C","K","S","M","I","T","H","_","I","N","S","T","A","L","L","A","T","I","O","N","_","M","O","D","E","L","_","I","D"," ","e","n","v","i","r","o","n","m","e","n","t"," ","v","a","r","i","a","b","l","e"," ","i","s"," ","r","e","q","u","i","r","e","d","."," ","T","h","i","s"," ","s","h","o","u","l","d"," ","b","e"," ","s","e","t"," ","b","y"," ","t","h","e"," ","B","l","a","c","k","s","m","i","t","h"," ","r","u","n","n","e","r",".">>

\* "BLACKSMITH_REGION environment variable is required. This should be set by the Blacksmith runner."
MSG_regionRequired ==
    <<"B","L","A","C","K","S","M","I","T","H","_","R","E","G","I","O","N"," ","e","n","v","i","r","o","n","m","e","n","t"," ","v","a","r","i","a","b","l","e"," ","i","s"," ","r","e","q","u","i","r","e","d","."," ","T","h","i","s"," ","s","h","o","u","l","d"," ","b","e"," ","s","e","t"," ","b","y"," ","t","h","e"," ","B","l","a","c","k","s","m","i","t","h"," ","r","u","n","n","e","r",".">>

\* "Cannot read properties of null (reading 'message')"
MSG_nullResult ==
    <<"C","a","n","n","o","t"," ","r","e","a","d"," ","p","r","o","p","e","r","t","i","e","s"," ","o","f"," ","n","u","l","l"," ","(","r","e","a","d","i","n","g"," ","'","m","e","s","s","a","g","e","'",")">>

-----------------------------------------------------------------------------
(* JavaScript string and value helpers.                                    *)

\* String.prototype.includes
Includes(s, sub) ==
    \E i \in 0..(Len(s) - Len(sub)) : SubSeq(s, i + 1, i + Len(sub)) = sub

WhiteSpace ==
    {" ", "\t"}

RECURSIVE TrimStart(_)
TrimStart(s) ==
    IF s # <<>> /\ Head(s) \in WhiteSpace THEN TrimStart(Tail(s)) ELSE s

RECURSIVE TrimEnd(_)
TrimEnd(s) ==
    IF s # <<>> /\ s[Len(s)] \in WhiteSpace
    THEN TrimEnd(SubSeq(s, 1, Len(s) - 1))
    ELSE s

\* String.prototype.trim
Trim(s) ==
    TrimEnd(TrimStart(s))

Digit(d) ==
    <<"0", "1", "2", "3", "4", "5", "6", "7", "8", "9">>[d + 1]

\* String(n) for a non-negative integer
RECURSIVE NumToStr(_)
NumToStr(n) ==
    IF n < 10 THEN <<Digit(n)>> ELSE NumToStr(n \div 10) \o <<Digit(n % 10)>>

RECURSIVE Pow2(_)
\* Math.pow(2, n)
Pow2(n) ==
    IF n = 0 THEN 1 ELSE 2 * Pow2(n - 1)

\* An environment variable that is not set (undefined).
Unset ==
    [set |-> FALSE, val |-> <<>>]

\* An environment variable set to the string s.
SetTo(s) ==
    [set |-> TRUE, val |-> s]

\* JavaScript truthiness of a string | undefined value.
Truthy(v) ==
    v.set /\ v.val # <<>>

\* An Error object: message and the optional status field.
PlainError(message) ==
    [message |-> message, hasStatus |-> FALSE, status |-> 0]

-----------------------------------------------------------------------------
(* gha-utils, as bundled.                                                  *)

InputVar(name) ==
    CASE name = "delete-key" -> "INPUT_DELETE-KEY"
      [] name = "delete-docker-cache" -> "INPUT_DELETE-DOCKER-CACHE"

\* Faulty variant: the value is not trimmed.
getInputUntrimmed(e, name) ==
    IF e[InputVar(name)].set THEN e[InputVar(name)].val ELSE <<>>

\* getInput: process.env[`INPUT_${name.toUpperCase()}`] ?? "", trimmed
getInput(e, name) ==
    Trim(IF e[InputVar(name)].set THEN e[InputVar(name)].val ELSE <<>>)

Stdout(text) ==
    [ev |-> "stdout", text |-> text, n |-> 0]

logInfo(message) ==
    Stdout(message)

logError(err) ==
    Stdout(STR_errorPrefix \o err.message)

-----------------------------------------------------------------------------
(* Configuration resolution.                                               *)

\* Faulty variant: staging detection is tried before the override.
getBlacksmithAPIUrlStagingFirst(e) ==
    IF e["BLACKSMITH_ENV"].set /\ Includes(e["BLACKSMITH_ENV"].val, STR_staging)
    THEN STR_stagingUrl
    ELSE IF Truthy(e["BLACKSMITH_BACKEND_URL"])
    THEN e["BLACKSMITH_BACKEND_URL"].val
    ELSE STR_productionUrl

getBlacksmithAPIUrl(e) ==
    IF Truthy(e["BLACKSMITH_BACKEND_URL"])
    THEN e["BLACKSMITH_BACKEND_URL"].val
    ELSE IF e["BLACKSMITH_ENV"].set /\ Includes(e["BLACKSMITH_ENV"].val, STR_staging)
    THEN STR_stagingUrl
    ELSE STR_productionUrl

\* Faulty variant: a backend URL override resets the architecture to the default.
getArchitectureUnlessOverride(e) ==
    IF e["BLACKSMITH_ENV"].set /\ Includes(e["BLACKSMITH_ENV"].val, STR_arm)
       /\ ~Truthy(e["BLACKSMITH_BACKEND_URL"])
    THEN STR_arm64
    ELSE STR_amd64

getArchitecture(e) ==
    IF e["BLACKSMITH_ENV"].set /\ Includes(e["BLACKSMITH_ENV"].val, STR_arm)
    THEN STR_arm64
    ELSE STR_amd64

-----------------------------------------------------------------------------
(* retryWithBackoff: the pure parts of the catch block.                    *)

DefaultMaxRetries ==
    5

DefaultInitialBackoffMs ==
    200

\* Faulty variant: every client error is retried as well.
ShouldRetryClientErrors(error) ==
    \/ Includes(error.message, STR_429)
    \/ (error.hasStatus /\ error.status >= 400)

\* Faulty variant: only the status field is looked at, not the message.
ShouldRetryStatusOnly(error) ==
    error.hasStatus /\ (error.status = 429 \/ error.status >= 500)

\* const shouldRetry = message.includes("429") || status === 429 ||
\*                     (status !== undefined && status >= 500)
ShouldRetry(error) ==
    \/ Includes(error.message, STR_429)
    \/ (error.hasStatus /\ error.status = 429)
    \/ (error.hasStatus /\ error.status >= 500)

\* Faulty variant: a wait follows the last attempt as well.
AttemptsRemainToLast(att, max) ==
    att < max

\* attempt < maxRetries - 1
AttemptsRemain(att, max) ==
    att < max - 1

\* Faulty variant: the delay grows linearly.
BackoffMsLinear(initial, att) ==
    initial * (att + 1)

\* Faulty variant: the exponent counts attempts from one, so the first wait is doubled.
BackoffMsFromOne(initial, att) ==
    initial * Pow2(att + 1)

\* initialBackoffMs * Math.pow(2, attempt)
BackoffMs(initial, att) ==
    initial * Pow2(att)

\* Faulty variant: the line reports the zero-based loop counter.
RetryLineZeroBased(att, max, backoffMs) ==
    MSG_retry1 \o NumToStr(att) \o MSG_retry2 \o NumToStr(max)
        \o MSG_retry3 \o NumToStr(backoffMs) \o MSG_retry4

\* `Request failed (attempt ${attempt + 1}/${maxRetries}). Retrying in ${backoffMs}ms...`
RetryLine(att, max, backoffMs) ==
    MSG_retry1 \o NumToStr(att + 1) \o MSG_retry2 \o NumToStr(max)
        \o MSG_retry3 \o NumToStr(backoffMs) \o MSG_retry4

\* Faulty variant: the error of the attempt before is thrown.
RethrownPrevious(error, previous) ==
    previous

\* `throw error` in the catch block: the error just caught, not an earlier one.
Rethrown(error, previous) ==
    error

-----------------------------------------------------------------------------
(* deleteStickyDiskByKey: the request and the errors of operation().       *)

\* The arguments of one deleteStickyDiskByKey call with apiUrl and arch resolved.
CallArgs(e, stickyDiskKey, stickyDiskToken, repoName, installationModelId, region, type) ==
    [apiUrl |-> getBlacksmithAPIUrl(e), arch |-> getArchitecture(e),
     stickyDiskKey |-> stickyDiskKey, stickyDiskToken |-> stickyDiskToken,
     repoName |-> repoName, installationModelId |-> installationModelId,
     region |-> region, type |-> type]

\* Faulty variant: repo_name and stickydisk_key carry each other's value.
RequestBodySwapped(c) ==
    << <<"repo_name", c.stickyDiskKey>>,
       <<"stickydisk_key", c.repoName>>,
       <<"installation_model_id", c.installationModelId>>,
       <<"region", c.region>>,
       <<"arch", c.arch>>,
       <<"type", c.type>> >>

\* JSON.stringify({...}): the members in source order.
RequestBody(c) ==
    << <<"repo_name", c.repoName>>,
       <<"stickydisk_key", c.stickyDiskKey>>,
       <<"installation_model_id", c.installationModelId>>,
       <<"region", c.region>>,
       <<"arch", c.arch>>,
       <<"type", c.type>> >>

RequestHeaders(c) ==
    { <<"Authorization", STR_Bearer \o c.stickyDiskToken>>,
      <<"Content-Type", STR_applicationJson>> }

\* The arguments of fetch().
Request(c) ==
    [url |-> c.apiUrl \o STR_path, method |-> STR_DELETE,
     headers |-> RequestHeaders(c), body |-> RequestBody(c)]

\* new Error(`Failed to delete sticky disk: ${status} - ${errorText}`), status set
HttpError(status, errorText) ==
    [message |-> MSG_failedPrefix \o NumToStr(status) \o MSG_dash \o errorText,
     hasStatus |-> TRUE, status |-> status]

\* response.ok
ResponseOk(status) ==
    status >= 200 /\ status <= 299

\* The six informational lines at the top of deleteStickyDiskByKey.
DeleteLogs(c) ==
    << logInfo(MSG_usingUrl \o c.apiUrl),
       logInfo(MSG_deletingKey \o c.stickyDiskKey),
       logInfo(MSG_repository \o c.repoName),
       logInfo(MSG_region \o c.region),
       logInfo(MSG_architecture \o c.arch),
       logInfo(MSG_type \o c.type) >>

\* The two lines after retryWithBackoff returned result.
SuccessLogs(result) ==
    << logInfo(MSG_success \o result.message),
       logInfo(MSG_entityId \o result.entity_id) >>

-----------------------------------------------------------------------------
(* main: input and environment validation.                                 *)

\* const deleteKey = getInput("delete-key")
deleteKeyOf(e) ==
    getInput(e, "delete-key")

\* const deleteDockerCache = getInput("delete-docker-cache") === "true"
deleteDockerCacheOf(e) ==
    getInput(e, "delete-docker-cache") = STR_true

\* Faulty variant: the both-set check is missing.
ModeCheckAllowsBoth(e) ==
    IF deleteKeyOf(e) = <<>> /\ ~deleteDockerCacheOf(e)
    THEN <<MSG_eitherOne>>
    ELSE <<>>

\* The two mode checks: <<>> when they pass, else the message of the error thrown.
ModeCheck(e) ==
    IF deleteKeyOf(e) # <<>> /\ deleteDockerCacheOf(e)
    THEN <<MSG_onlyOne>>
    ELSE IF deleteKeyOf(e) = <<>> /\ ~deleteDockerCacheOf(e)
    THEN <<MSG_eitherOne>>
    ELSE <<>>

\* process.env.GITHUB_REPO_NAME ?? process.env.GITHUB_REPOSITORY
repoNameOf(e) ==
    IF e["GITHUB_REPO_NAME"].set THEN e["GITHUB_REPO_NAME"] ELSE e["GITHUB_REPOSITORY"]

\* Faulty variant: the region check is missing.
EnvCheckNoRegion(e) ==
    IF ~Truthy(e["BLACKSMITH_STICKYDISK_TOKEN"])
    THEN <<MSG_tokenRequired>>
    ELSE IF ~Truthy(repoNameOf(e))
    THEN <<MSG_repoRequired>>
    ELSE IF ~Truthy(e["BLACKSMITH_INSTALLATION_MODEL_ID"])
    THEN <<MSG_modelRequired>>
    ELSE <<>>

\* The four required-value checks, in source order.
EnvCheck(e) ==
    IF ~Truthy(e["BLACKSMITH_STICKYDISK_TOKEN"])
    THEN <<MSG_tokenRequired>>
    ELSE IF ~Truthy(repoNameOf(e))
    THEN <<MSG_repoRequired>>
    ELSE IF ~Truthy(e["BLACKSMITH_INSTALLATION_MODEL_ID"])
    THEN <<MSG_modelRequired>>
    ELSE IF ~Truthy(e["BLACKSMITH_REGION"])
    THEN <<MSG_regionRequired>>
    ELSE <<>>

\* Faulty variant: the required values are checked before the mode selection.
ValidateEnvFirst(e) ==
    IF EnvCheck(e) # <<>> THEN EnvCheck(e) ELSE ModeCheck(e)

\* All of main's validation: the message of the first error thrown, if any.
Validate(e) ==
    IF ModeCheck(e) # <<>> THEN ModeCheck(e) ELSE EnvCheck(e)

\* Faulty variant: the delete-key block passes the repository name as the key.
KeyCallRepoAsKey(e) ==
    CallArgs(e, repoNameOf(e).val, e["BLACKSMITH_STICKYDISK_TOKEN"].val, repoNameOf(e).val,
             e["BLACKSMITH_INSTALLATION_MODEL_ID"].val, e["BLACKSMITH_REGION"].val,
             STR_stickydisk)

\* The arguments main passes to deleteStickyDiskByKey in the delete-key block.
KeyCall(e) ==
    CallArgs(e, deleteKeyOf(e), e["BLACKSMITH_STICKYDISK_TOKEN"].val, repoNameOf(e).val,
             e["BLACKSMITH_INSTALLATION_MODEL_ID"].val, e["BLACKSMITH_REGION"].val,
             STR_stickydisk)

\* The arguments main passes to deleteStickyDiskByKey in the delete-docker-cache block.
DockerCall(e) ==
    CallArgs(e, repoNameOf(e).val, e["BLACKSMITH_STICKYDISK_TOKEN"].val, repoNameOf(e).val,
             e["BLACKSMITH_INSTALLATION_MODEL_ID"].val, e["BLACKSMITH_REGION"].val,
             STR_dockerfile)

-----------------------------------------------------------------------------
(* Events.                                                                 *)

FetchEvent(req) ==
    [ev |-> "fetch", text |-> req.url, n |-> 0]

SetTimeout(ms) ==
    [ev |-> "setTimeout", text |-> <<>>, n |-> ms]

SetExitCode(code) ==
    [ev |-> "exitCode", text |-> <<>>, n |-> code]

\* Faulty variant: the catch block sets the exit code without logging.
CatchEventsSilent(err) ==
    <<SetExitCode(1)>>

\* main's catch block: logError(err); process.exitCode = 1
CatchEvents(err) ==
    <<logError(err), SetExitCode(1)>>

-----------------------------------------------------------------------------
(* Steps shared by the actions.                                            *)

\* An error reaches main's catch block, after the events pre of the same step.
Fail(pre, err) ==
    /\ trace' = trace \o pre \o CatchEvents(err)
    /\ exitCode' = <<1>>
    /\ pc' = "done"

\* Loop head of retryWithBackoff with attempt = att and fl requests still in
\* flight: either operation() is called and issues its fetch, or the loop is
\* over and lastError is thrown.
Iterate(pre, att, c, lastErr, fl) ==
    /\ attempt' = att
    /\ lastError' = lastErr
    /\ response' = 0
    /\ IF att < maxRetries
       THEN /\ requests' = Append(requests, Request(c))
            /\ trace' = trace \o pre \o <<FetchEvent(Request(c))>>
            /\ inFlight' = fl + 1
            /\ pc' = "fetch"
            /\ thrown' = <<>>
            /\ UNCHANGED exitCode
       ELSE /\ Fail(pre, lastErr)
            /\ inFlight' = fl
            /\ UNCHANGED <<requests, thrown>>

\* deleteStickyDiskByKey up to its first await, after the events pre.
BeginDelete(pre, c, fl) ==
    /\ call' = <<c>>
    /\ Iterate(pre \o DeleteLogs(c), 0, c, PlainError(MSG_noError), fl)

\* Faulty variant: the promise of the backoff timer is not awaited, the loop
\* goes on to its next iteration at once.
OnOperationErrorNoAwait(error) ==
    IF ShouldRetry(error) /\ AttemptsRemain(attempt, maxRetries)
    THEN LET backoffMs == BackoffMs(initialBackoffMs, attempt) IN
         /\ timers' = timers + 1
         /\ Iterate(<<logInfo(RetryLine(attempt, maxRetries, backoffMs)),
                      SetTimeout(backoffMs)>>,
                    attempt + 1, call[1], error, inFlight - 1)
         /\ UNCHANGED call
    ELSE /\ thrown' = <<error>>
         /\ lastError' = error
         /\ response' = 0
         /\ inFlight' = inFlight - 1
         /\ Fail(<<>>, Rethrown(error, lastError))
         /\ UNCHANGED <<call, attempt, requests, timers>>

\* The catch block of retryWithBackoff for the error operation() threw.
OnOperationError(error) ==
    /\ thrown' = <<error>>
    /\ lastError' = error
    /\ response' = 0
    /\ inFlight' = inFlight - 1
    /\ UNCHANGED <<call, attempt, requests>>
    /\ IF ShouldRetry(error) /\ AttemptsRemain(attempt, maxRetries)
       THEN LET backoffMs == BackoffMs(initialBackoffMs, attempt) IN
            /\ trace' = trace \o <<logInfo(RetryLine(attempt, maxRetries, backoffMs)),
                                   SetTimeout(backoffMs)>>
            /\ timers' = timers + 1
            /\ pc' = "sleep"
            /\ UNCHANGED exitCode
       ELSE /\ Fail(<<>>, Rethrown(error, lastError))
            /\ UNCHANGED timers

-----------------------------------------------------------------------------
(* What the remote end and the runtime can answer.                         *)

Statuses ==
    {200, 404, 429, 503}

\* Response body texts of non-2xx answers.
Bodies ==
    { <<"n","f">>, <<"x","4","2","9">> }

\* Messages of errors raised by fetch(), response.text() and response.json().
FailureMessages ==
    { <<"b","a","d">>, <<"a","t"," ","4","2","9">> }

\* Decoded 2xx bodies: a DeleteResponse, or the JSON value null.
Results ==
    { [isNull |-> FALSE, message |-> <<"o","k">>, entity_id |-> <<"e","1">>],
      [isNull |-> TRUE, message |-> <<>>, entity_id |-> <<>>] }

-----------------------------------------------------------------------------
(* Actions: one per resumption of main.                                    *)

\* main from its start to its first await (or to its end).
Main ==
    /\ pc = "start"
    /\ UNCHANGED <<env, maxRetries, initialBackoffMs>>
    /\ IF Validate(env) # <<>>
       THEN /\ Fail(<<>>, PlainError(Validate(env)[1]))
            /\ UNCHANGED <<call, attempt, lastError, response, thrown, requests,
                           inFlight, timers>>
       ELSE IF deleteKeyOf(env) # <<>>
       THEN /\ BeginDelete(<<logInfo(MSG_deletingKey \o deleteKeyOf(env))>>, KeyCall(env),
                           inFlight)
            /\ UNCHANGED timers
       ELSE IF deleteDockerCacheOf(env)
       THEN /\ BeginDelete(<<logInfo(MSG_deletingDocker)>>, DockerCall(env), inFlight)
            /\ UNCHANGED timers
       ELSE /\ pc' = "done"
            /\ UNCHANGED <<call, attempt, lastError, response, thrown, requests, trace,
                           exitCode, inFlight, timers>>

\* fetch() resolves with a Response.
FetchResolves ==
    /\ pc = "fetch"
    /\ \E status \in Statuses :
          /\ response' = status
          /\ pc' = IF ResponseOk(status) THEN "json" ELSE "text"
    /\ UNCHANGED <<env, maxRetries, initialBackoffMs, call, attempt, lastError,
                   thrown, requests, trace, exitCode, inFlight, timers>>

\* fetch() rejects: a network-level failure.
FetchRejects ==
    /\ pc = "fetch"
    /\ \E m \in FailureMessages : OnOperationError(PlainError(m))
    /\ UNCHANGED <<env, maxRetries, initialBackoffMs>>

\* response.text() of a non-2xx answer resolves; operation() throws the HTTP error.
TextResolves ==
    /\ pc = "text"
    /\ \E errorText \in Bodies : OnOperationError(HttpError(response, errorText))
    /\ UNCHANGED <<env, maxRetries, initialBackoffMs>>

\* response.text() rejects.
TextRejects ==
    /\ pc = "text"
    /\ \E m \in FailureMessages : OnOperationError(PlainError(m))
    /\ UNCHANGED <<env, maxRetries, initialBackoffMs>>

\* response.json() resolves: retryWithBackoff returns, deleteStickyDiskByKey
\* logs the result and main goes on to its delete-docker-cache block.
JsonResolves ==
    /\ pc = "json"
    /\ UNCHANGED <<env, maxRetries, initialBackoffMs, timers>>
    /\ \E result \in Results :
          IF result.isNull
          THEN /\ Fail(<<>>, PlainError(MSG_nullResult))
               /\ response' = 0
               /\ inFlight' = inFlight - 1
               /\ UNCHANGED <<call, attempt, lastError, thrown, requests>>
          ELSE IF call[1].type = STR_stickydisk /\ deleteDockerCacheOf(env)
          THEN BeginDelete(SuccessLogs(result) \o <<logInfo(MSG_deletingDocker)>>,
                           DockerCall(env), inFlight - 1)
          ELSE /\ trace' = trace \o SuccessLogs(result)
               /\ pc' = "done"
               /\ response' = 0
               /\ inFlight' = inFlight - 1
               /\ UNCHANGED <<call, attempt, lastError, thrown, requests, exitCode>>

\* response.json() rejects: the body is not JSON.
JsonRejects ==
    /\ pc = "json"
    /\ \E m \in FailureMessages : OnOperationError(PlainError(m))
    /\ UNCHANGED <<env, maxRetries, initialBackoffMs>>

\* Faulty variant: the timer fires but its promise is never resolved, so the
\* loop is not resumed.
TimerFiresUnresolved ==
    /\ pc = "sleep"
    /\ timers = 1
    /\ timers' = 0
    /\ UNCHANGED <<env, maxRetries, initialBackoffMs, pc, call, attempt, lastError,
                   response, thrown, requests, trace, exitCode, inFlight>>

\* The backoff timer fires: `continue`, attempt++ and the loop head.
TimerFires ==
    /\ pc = "sleep"
    /\ timers' = timers - 1
    /\ Iterate(<<>>, attempt + 1, call[1], lastError, inFlight)
    /\ UNCHANGED <<env, maxRetries, initialBackoffMs, call>>

Next ==
    \/ Main
    \/ FetchResolves
    \/ FetchRejects
    \/ TextResolves
    \/ TextRejects
    \/ JsonResolves
    \/ JsonRejects
    \/ TimerFires

-----------------------------------------------------------------------------
(* Initial states.                                                         *)

KeyInputs ==
    { Unset, SetTo(<<" ">>), SetTo(<<"k","1"," ">>) }

FlagInputs ==
    { Unset, SetTo(<<" ">> \o STR_true), SetTo(<<"T","r","u","e">>) }

Tokens ==
    { Unset, SetTo(<<>>), SetTo(<<"t","k">>) }

RepoNames ==
    { Unset, SetTo(<<>>), SetTo(<<"o","/","a">>) }

Repositories ==
    { Unset, SetTo(<<>>), SetTo(<<"o","/","b">>) }

ModelIds ==
    { Unset, SetTo(<<>>), SetTo(<<"7">>) }

Regions ==
    { Unset, SetTo(<<>>), SetTo(<<"u","s">>) }

BackendUrls ==
    { Unset, SetTo(<<>>), SetTo(<<"h",":","/","/","c">>) }

EnvTags ==
    { Unset, SetTo(STR_staging), SetTo(<<"p","-">> \o STR_arm),
      SetTo(STR_staging \o <<"-">> \o STR_arm) }

MakeEnv(k, f, t, rn, r, m, g, b, v) ==
    ("INPUT_DELETE-KEY" :> k) @@ ("INPUT_DELETE-DOCKER-CACHE" :> f)
    @@ ("BLACKSMITH_STICKYDISK_TOKEN" :> t) @@ ("GITHUB_REPO_NAME" :> rn)
    @@ ("GITHUB_REPOSITORY" :> r) @@ ("BLACKSMITH_INSTALLATION_MODEL_ID" :> m)
    @@ ("BLACKSMITH_REGION" :> g) @@ ("BLACKSMITH_BACKEND_URL" :> b)
    @@ ("BLACKSMITH_ENV" :> v)

Environments ==
    { MakeEnv(k, f, t, rn, r, m, g, b, v) :
        k \in KeyInputs, f \in FlagInputs, t \in Tokens, rn \in RepoNames,
        r \in Repositories, m \in ModelIds, g \in Regions, b \in BackendUrls,
        v \in EnvTags }

\* The state when main is entered, retryWithBackoff's parameters aside.
Entry ==
    /\ pc = "start"
    /\ call = <<>>
    /\ attempt = 0
    /\ lastError = PlainError(MSG_noError)
    /\ response = 0
    /\ thrown = <<>>
    /\ requests = <<>>
    /\ trace = <<>>
    /\ exitCode = <<>>
    /\ inFlight = 0
    /\ timers = 0

\* The program: retryWithBackoff(operation) with its default parameters.
Init ==
    /\ env \in Environments
    /\ maxRetries = DefaultMaxRetries
    /\ initialBackoffMs = DefaultInitialBackoffMs
    /\ Entry

Spec ==
    Init /\ [][Next]_vars

-----------------------------------------------------------------------------
(* retryWithBackoff as a function of its parameters: the same run with     *)
(* maxRetries and initialBackoffMs drawn from bounded sets.                *)

MaxRetriesBound ==
    6

BackoffChoices ==
    {1, 200}

RetryEnvironments ==
    { MakeEnv(k, f, t, SetTo(<<"o","/","a">>), Unset, SetTo(<<"7">>), SetTo(<<"u","s">>),
              Unset, Unset) :
        k \in {Unset, SetTo(<<"k","1">>)},
        f \in {Unset, SetTo(STR_true)},
        t \in {Unset, SetTo(<<"t","k">>)} }

InitRetry ==
    /\ env \in RetryEnvironments
    /\ maxRetries \in 0..MaxRetriesBound
    /\ initialBackoffMs \in BackoffChoices
    /\ Entry

SpecRetry ==
    InitRetry /\ [][Next]_vars

\* Every suspension of main is resumed: main itself is run, each pending
\* fetch(), response.text() and response.json() settles one way or the other,
\* and each backoff timer fires.  Which way a request settles is left open.
Fairness ==
    /\ WF_vars(Main)
    /\ WF_vars(FetchResolves \/ FetchRejects)
    /\ WF_vars(TextResolves \/ TextRejects)
    /\ WF_vars(JsonResolves \/ JsonRejects)
    /\ WF_vars(TimerFires)

SpecFair ==
    InitRetry /\ [][Next]_vars /\ Fairness

-----------------------------------------------------------------------------
(* The legacy variant (src/unnamed/part_000): the same getInput, logging,  *)
(* getBlacksmithAPIUrl and retryWithBackoff; main requires only the token  *)
(* and GITHUB_REPOSITORY, deletes by key alone and has no implementation   *)
(* of the delete-docker-cache block.                                       *)

\* "/stickydisks/cache/by-key"
STR_legacyPath ==
    <<"/","s","t","i","c","k","y","d","i","s","k","s","/","c","a","c","h","e","/","b","y","-","k","e","y">>

\* "GITHUB_REPOSITORY environment variable is required. This should be set by GitHub Actions."
MSG_legacyRepoRequired ==
    <<"G","I","T","H","U","B","_","R","E","P","O","S","I","T","O","R","Y"," ","e","n","v","i","r","o","n","m","e","n","t"," ","v","a","r","i","a","b","l","e"," ","i","s"," ","r","e","q","u","i","r","e","d","."," ","T","h","i","s"," ","s","h","o","u","l","d"," ","b","e"," ","s","e","t"," ","b","y"," ","G","i","t","H","u","b"," ","A","c","t","i","o","n","s",".">>

\* "Successfully deleted sticky disk cache for key: "
MSG_legacySuccess ==
    <<"S","u","c","c","e","s","s","f","u","l","l","y"," ","d","e","l","e","t","e","d"," ","s","t","i","c","k","y"," ","d","i","s","k"," ","c","a","c","h","e"," ","f","o","r"," ","k","e","y",":"," ">>

\* "Cannot read properties of null (reading 'stickydisk_entity_id')"
MSG_legacyNullResult ==
    <<"C","a","n","n","o","t"," ","r","e","a","d"," ","p","r","o","p","e","r","t","i","e","s"," ","o","f"," ","n","u","l","l"," ","(","r","e","a","d","i","n","g"," ","'","s","t","i","c","k","y","d","i","s","k","_","e","n","t","i","t","y","_","i","d","'",")">>

\* Faulty variant: the repository name is read from GITHUB_REPO_NAME.
LegacyEnvCheckRepoName(e) ==
    IF ~Truthy(e["BLACKSMITH_STICKYDISK_TOKEN"])
    THEN <<MSG_tokenRequired>>
    ELSE IF ~Truthy(e["GITHUB_REPO_NAME"])
    THEN <<MSG_legacyRepoRequired>>
    ELSE <<>>

\* The two required-value checks of the legacy main, in source order.
LegacyEnvCheck(e) ==
    IF ~Truthy(e["BLACKSMITH_STICKYDISK_TOKEN"])
    THEN <<MSG_tokenRequired>>
    ELSE IF ~Truthy(e["GITHUB_REPOSITORY"])
    THEN <<MSG_legacyRepoRequired>>
    ELSE <<>>

\* All of the legacy main's validation: the message of the first error thrown.
LegacyValidate(e) ==
    IF ModeCheck(e) # <<>> THEN ModeCheck(e) ELSE LegacyEnvCheck(e)

\* The arguments of deleteStickyDiskByKey(key, stickyDiskToken, repoName), apiUrl resolved.
LegacyCall(e) ==
    [apiUrl |-> getBlacksmithAPIUrl(e), key |-> deleteKeyOf(e),
     stickyDiskToken |-> e["BLACKSMITH_STICKYDISK_TOKEN"].val,
     repoName |-> e["GITHUB_REPOSITORY"].val]

\* JSON.stringify({ key })
LegacyRequestBody(c) ==
    << <<"key", c.key>> >>

\* Faulty variant: the repository-name header is not sent.
LegacyRequestHeadersNoRepo(c) ==
    { <<"Authorization", STR_Bearer \o c.stickyDiskToken>>,
      <<"Content-Type", STR_applicationJson>> }

LegacyRequestHeaders(c) ==
    { <<"Authorization", STR_Bearer \o c.stickyDiskToken>>,
      <<"X-Github-Repo-Name", c.repoName>>,
      <<"Content-Type", STR_applicationJson>> }

\* The arguments of the legacy fetch().
LegacyRequest(c) ==
    [url |-> c.apiUrl \o STR_legacyPath, method |-> STR_DELETE,
     headers |-> LegacyRequestHeaders(c), body |-> LegacyRequestBody(c)]

\* Decoded 2xx bodies: an object with stickydisk_entity_id, or the JSON value null.
LegacyResults ==
    { [isNull |-> FALSE, stickydisk_entity_id |-> <<"e","1">>],
      [isNull |-> TRUE, stickydisk_entity_id |-> <<>>] }

\* Loop head of retryWithBackoff around the legacy operation().
LegacyIterate(pre, att, c, lastErr, fl) ==
    /\ attempt' = att
    /\ lastError' = lastErr
    /\ response' = 0
    /\ IF att < maxRetries
       THEN /\ requests' = Append(requests, LegacyRequest(c))
            /\ trace' = trace \o pre \o <<FetchEvent(LegacyRequest(c))>>
            /\ inFlight' = fl + 1
            /\ pc' = "fetch"
            /\ thrown' = <<>>
            /\ UNCHANGED exitCode
       ELSE /\ Fail(pre, lastErr)
            /\ inFlight' = fl
            /\ UNCHANGED <<requests, thrown>>

\* The `if (deleteDockerCache)` block of the legacy main: one line, no request.
LegacyDockerBlock(e) ==
    IF deleteDockerCacheOf(e) THEN <<logInfo(MSG_deletingDocker)>> ELSE <<>>

\* The legacy main from its start to its first await (or to its end).
LegacyMain ==
    /\ pc = "start"
    /\ UNCHANGED <<env, maxRetries, initialBackoffMs, timers>>
    /\ IF LegacyValidate(env) # <<>>
       THEN /\ Fail(<<>>, PlainError(LegacyValidate(env)[1]))
            /\ UNCHANGED <<call, attempt, lastError, response, thrown, requests, inFlight>>
       ELSE IF deleteKeyOf(env) # <<>>
       THEN /\ call' = <<LegacyCall(env)>>
            /\ LegacyIterate(<<logInfo(MSG_deletingKey \o deleteKeyOf(env)),
                               logInfo(MSG_usingUrl \o LegacyCall(env).apiUrl)>>,
                             0, LegacyCall(env), PlainError(MSG_noError), inFlight)
       ELSE /\ trace' = trace \o LegacyDockerBlock(env)
            /\ pc' = "done"
            /\ UNCHANGED <<call, attempt, lastError, response, thrown, requests, exitCode,
                           inFlight>>

\* response.json() resolves in the legacy variant: the success line, then
\* result.stickydisk_entity_id is read, then main's delete-docker-cache block.
LegacyJsonResolves ==
    /\ pc = "json"
    /\ response' = 0
    /\ inFlight' = inFlight - 1
    /\ UNCHANGED <<env, maxRetries, initialBackoffMs, timers, call, attempt, lastError,
                   thrown, requests>>
    /\ \E result \in LegacyResults :
          IF result.isNull
          THEN Fail(<<logInfo(MSG_legacySuccess \o call[1].key)>>,
                    PlainError(MSG_legacyNullResult))
          ELSE /\ trace' = trace \o <<logInfo(MSG_legacySuccess \o call[1].key),
                                       logInfo(MSG_entityId \o result.stickydisk_entity_id)>>
                                 \o LegacyDockerBlock(env)
               /\ pc' = "done"
               /\ UNCHANGED exitCode

\* The backoff timer fires in the legacy variant.
LegacyTimerFires ==
    /\ pc = "sleep"
    /\ timers' = timers - 1
    /\ LegacyIterate(<<>>, attempt + 1, call[1], lastError, inFlight)
    /\ UNCHANGED <<env, maxRetries, initialBackoffMs, call>>

NextLegacy ==
    \/ LegacyMain
    \/ FetchResolves
    \/ FetchRejects
    \/ TextResolves
    \/ TextRejects
    \/ LegacyJsonResolves
    \/ JsonRejects
    \/ LegacyTimerFires

\* The legacy program over the same environments and default parameters.
SpecLegacy ==
    Init /\ [][NextLegacy]_vars

-----------------------------------------------------------------------------
(* Observations on a run, used by the properties below.                    *)

IsSetTimeout(e) ==
    e.ev = "setTimeout"

IsFetch(e) ==
    e.ev = "fetch"

IsExitCode(e) ==
    e.ev = "exitCode"

StartsWith(s, prefix) ==
    Len(s) >= Len(prefix) /\ SubSeq(s, 1, Len(prefix)) = prefix

IsErrorLine(e) ==
    e.ev = "stdout" /\ StartsWith(e.text, STR_errorPrefix)

IsRetryLine(e) ==
    e.ev = "stdout" /\ StartsWith(e.text, MSG_retry1)

IsDeleteStart(e) ==
    e.ev = "stdout" /\ StartsWith(e.text, MSG_usingUrl)

\* The durations of the backoff waits so far, in order.
Waits ==
    LET t == SelectSeq(trace, IsSetTimeout) IN [i \in 1..Len(t) |-> t[i].n]

\* The events after the latest fetch() call.
SinceLastFetch ==
    LET last == CHOOSE i \in 1..Len(trace) :
                    IsFetch(trace[i]) /\ \A j \in (i + 1)..Len(trace) : ~IsFetch(trace[j])
    IN  SubSeq(trace, last + 1, Len(trace))

\* The retry predicate as the specification words it.
RetryableFailure(e) ==
    \/ Includes(e.message, <<"4","2","9">>)
    \/ (e.hasStatus /\ e.status = 429)
    \/ (e.hasStatus /\ e.status >= 500)

\* This step is the failure of an attempt: operation() throws.
AttemptFails ==
    thrown = <<>> /\ thrown' # <<>>

\* This step is a 2xx answer decoded into a DeleteResponse.
AttemptSucceeds ==
    pc = "json" /\ \E r \in Results : ~r.isNull /\ trace' = trace \o SuccessLogs(r)

\* initialDelayMs, 2*initialDelayMs, ..., initialDelayMs*2^(k-1)
DoublingWaits(initial, k) ==
    [i \in 1..k |-> initial * 2^(i - 1)]

ValidationPassed ==
    Validate(env) = <<>>

-----------------------------------------------------------------------------
(* Properties.                                                             *)

\* C1: a validated run stops at the first attempt that succeeds or fails with a
\* non-retryable error, or at attempt maxRetries: a non-retryable failure at
\* attempt k (attempt = k - 1 retryable failures before it) ends the run with
\* exactly k requests, no further wait and exit code 1; no run makes more
\* than maxRetries requests.
C1_StopsAtFirstFinalOutcome ==
    [][ /\ (AttemptFails /\ ~RetryableFailure(thrown'[1])) =>
              /\ pc' = "done" /\ exitCode' = <<1>>
              /\ requests' = requests /\ Len(requests) = attempt + 1
              /\ Waits' = Waits /\ Len(Waits) = attempt
        /\ (AttemptFails /\ attempt + 1 = maxRetries) =>
              /\ pc' = "done" /\ exitCode' = <<1>>
              /\ requests' = requests /\ Len(requests) = maxRetries
              /\ Waits' = Waits
        /\ AttemptSucceeds =>
              /\ pc' = "done" /\ exitCode' = <<>>
              /\ requests' = requests /\ Len(requests) = attempt + 1
              /\ Waits' = Waits
        /\ Len(requests') <= maxRetries
      ]_vars

\* C1 witness: a non-retryable failure at attempt 3, after two retried ones.
C1_Witness ==
    /\ pc = "done" /\ exitCode = <<1>> /\ ValidationPassed
    /\ thrown # <<>> /\ ~RetryableFailure(thrown[1])
    /\ Len(requests) = 3 /\ Len(Waits) = 2

\* C3: while the remote answers HTTP 429 and attempts remain, each 429 is
\* followed by a wait and one more request, the waits made before request
\* k+1 being initialBackoffMs, 2*initialBackoffMs, ..., initialBackoffMs*2^(k-1);
\* the first well-formed 2xx then ends the run with the exit code unset after
\* k+1 requests and those k waits.
C3_SucceedsAfter429s ==
    /\ [](pc \in {"fetch", "text", "json"} \/ (pc = "done" /\ exitCode = <<>>) =>
              /\ Len(requests) = attempt + 1
              /\ Waits = DoublingWaits(initialBackoffMs, attempt))
    /\ [][ /\ (AttemptFails /\ thrown'[1].hasStatus /\ thrown'[1].status = 429
                  /\ attempt + 1 < maxRetries) =>
                 /\ pc' = "sleep" /\ attempt' = attempt /\ requests' = requests
                 /\ Waits' = Append(Waits, initialBackoffMs * 2^attempt)
           /\ pc = "sleep" =>
                 /\ pc' = "fetch" /\ attempt' = attempt + 1
                 /\ Len(requests') = Len(requests) + 1 /\ Waits' = Waits
           /\ AttemptSucceeds =>
                 /\ pc' = "done" /\ exitCode' = <<>> /\ attempt' = attempt
                 /\ requests' = requests /\ Waits' = Waits
         ]_vars

\* C3 witness: a run that succeeded at its fifth request after four doubling
\* waits, the failure before the success being a 429 answer.
C3_Witness ==
    /\ pc = "done" /\ exitCode = <<>>
    /\ Len(requests) = 5 /\ Waits = <<200, 400, 800, 1600>>
    /\ lastError.hasStatus /\ lastError.status = 429

\* C4: when the run ends on a retryable failure, maxRetries attempts were made,
\* with maxRetries - 1 waits and retry lines, nothing but the error line and
\* the exit code follows the last request, and the error line carries the
\* message of the last attempt's error.
C4_ExhaustionSurfacesLastError ==
    (pc = "done" /\ thrown # <<>> /\ RetryableFailure(thrown[1])) =>
        /\ Len(requests) = maxRetries
        /\ Len(Waits) = maxRetries - 1
        /\ Len(SelectSeq(trace, IsRetryLine)) = maxRetries - 1
        /\ SinceLastFetch = <<Stdout(STR_errorPrefix \o thrown[1].message), SetExitCode(1)>>
        /\ exitCode = <<1>>

\* C4 witness: five attempts made, the fifth answered 503, whose error is surfaced.
C4_Witness ==
    /\ pc = "done" /\ exitCode = <<1>>
    /\ thrown # <<>> /\ thrown[1].hasStatus /\ thrown[1].status = 503
    /\ lastError = thrown[1]
    /\ Len(requests) = 5

\* C2: a non-2xx answer whose status is neither 429 nor >= 500 is fatal at once,
\* whatever its body text: the run is over with exit code 1, no request and no
\* wait follows the failed one, and a first answer of that kind leaves exactly
\* one request made.
C2_ClientErrorIsFatal ==
    (thrown # <<>> /\ thrown[1].hasStatus /\ thrown[1].status # 429 /\ thrown[1].status < 500) =>
        /\ pc = "done" /\ exitCode = <<1>>
        /\ Len(requests) = attempt + 1
        /\ Len(Waits) = attempt

\* C5: retryWithBackoff does not fail before operation() has been called once:
\* a validated run that ended with exit code 1 has made a request.
C5_NoFailureWithoutAttempt ==
    (pc = "done" /\ exitCode = <<1>> /\ ValidationPassed) => Len(requests) >= 1

\* C6: a failed attempt is followed by a wait and another attempt exactly when
\* fewer than maxRetries attempts were made and the error's message contains
\* "429", or its status is 429, or its status is defined and >= 500; any other
\* failed attempt ends the run.
C6_RetryExactlyWhenRetryable ==
    [][ /\ AttemptFails =>
              /\ (pc' = "sleep") <=>
                     (Len(requests) < maxRetries /\ RetryableFailure(thrown'[1]))
              /\ pc' \in {"sleep", "done"}
              /\ requests' = requests
        /\ pc = "sleep" =>
              /\ pc' = "fetch"
              /\ Len(requests') = Len(requests) + 1
        /\ Len(requests') > Len(requests) /\ requests # <<>> =>
              /\ pc = "sleep"
              /\ thrown # <<>> /\ RetryableFailure(thrown[1])
      ]_vars

\* C6 witness: a failure without status field whose message contains "429" is
\* being retried.
C6_Witness ==
    /\ pc = "fetch" /\ attempt = 1 /\ Len(requests) = 2
    /\ ~lastError.hasStatus /\ Includes(lastError.message, <<"4","2","9">>)

\* C7: with both modes selected, or neither, the run sets exit code 1 and
\* makes no request, whatever the environment holds.
C7_InvalidModeNoRequest ==
    ((deleteKeyOf(env) # <<>>) <=> deleteDockerCacheOf(env)) =>
        /\ requests = <<>>
        /\ pc \in {"start", "done"}
        /\ pc = "done" => exitCode = <<1>>

\* C7 witness: both modes selected with every required value present.
C7_Witness ==
    /\ pc = "done" /\ exitCode = <<1>> /\ requests = <<>>
    /\ deleteKeyOf(env) # <<>> /\ deleteDockerCacheOf(env)
    /\ EnvCheck(env) = <<>>

\* One of the required values is absent or empty.
RequiredValueMissing ==
    \/ ~Truthy(env["BLACKSMITH_STICKYDISK_TOKEN"])
    \/ ~Truthy(repoNameOf(env))
    \/ ~Truthy(env["BLACKSMITH_INSTALLATION_MODEL_ID"])
    \/ ~Truthy(env["BLACKSMITH_REGION"])

\* C8: with exactly one mode selected and any of token, repository identifier,
\* installation model id and region absent or empty, the run sets exit code 1
\* and makes no request.
C8_MissingValueNoRequest ==
    (((deleteKeyOf(env) # <<>>) # deleteDockerCacheOf(env)) /\ RequiredValueMissing) =>
        /\ requests = <<>>
        /\ pc \in {"start", "done"}
        /\ pc = "done" => exitCode = <<1>>

\* C8 witness: docker-cache mode with only the region missing (set but empty).
C8_Witness ==
    /\ pc = "done" /\ exitCode = <<1>> /\ requests = <<>>
    /\ deleteKeyOf(env) = <<>> /\ deleteDockerCacheOf(env)
    /\ Truthy(env["BLACKSMITH_STICKYDISK_TOKEN"]) /\ Truthy(repoNameOf(env))
    /\ Truthy(env["BLACKSMITH_INSTALLATION_MODEL_ID"])
    /\ env["BLACKSMITH_REGION"] = SetTo(<<>>)

\* The message of the error that ended the run.
FailureMessage ==
    IF ~ValidationPassed THEN Validate(env)[1]
    ELSE IF thrown # <<>> THEN thrown[1].message
    ELSE MSG_nullResult

\* C9: the exit code is 1 exactly when one error line was written, that line
\* carries the message of the failure and is written right before the exit
\* code is set, which ends the run; otherwise no error line is written and
\* the exit code stays unset.
C9_ExitCodeIffOneErrorLine ==
    /\ (exitCode = <<1>>) <=> (Len(SelectSeq(trace, IsErrorLine)) = 1)
    /\ (exitCode = <<>>) <=> (Len(SelectSeq(trace, IsErrorLine)) = 0)
    /\ (exitCode = <<>>) <=> (SelectSeq(trace, IsExitCode) = <<>>)
    /\ exitCode = <<1>> =>
          /\ pc = "done"
          /\ Len(trace) >= 2
          /\ trace[Len(trace)] = SetExitCode(1)
          /\ trace[Len(trace) - 1] = Stdout(STR_errorPrefix \o FailureMessage)
          /\ Len(SelectSeq(trace, IsExitCode)) = 1

\* C9 witness: a run ended by a rejected fetch() after the request was sent.
C9_Witness ==
    /\ pc = "done" /\ exitCode = <<1>> /\ Len(requests) = 1
    /\ thrown # <<>> /\ ~thrown[1].hasStatus
    /\ Len(SelectSeq(trace, IsErrorLine)) = 1

\* The request the wire contract prescribes for this run's environment.
ContractRequest ==
    LET repo == repoNameOf(env).val
        key  == IF deleteKeyOf(env) # <<>> THEN deleteKeyOf(env) ELSE repo
        type == IF deleteKeyOf(env) # <<>> THEN STR_stickydisk ELSE STR_dockerfile
    IN  [url |-> getBlacksmithAPIUrl(env) \o <<"/","s","t","i","c","k","y","d","i","s","k","s">>,
         method |-> <<"D","E","L","E","T","E">>,
         headers |-> { <<"Authorization",
                         STR_Bearer \o env["BLACKSMITH_STICKYDISK_TOKEN"].val>>,
                       <<"Content-Type", STR_applicationJson>> },
         body |-> << <<"repo_name", repo>>,
                     <<"stickydisk_key", key>>,
                     <<"installation_model_id", env["BLACKSMITH_INSTALLATION_MODEL_ID"].val>>,
                     <<"region", env["BLACKSMITH_REGION"].val>>,
                     <<"arch", getArchitecture(env)>>,
                     <<"type", type>> >>]

\* C10: a validated run whose first answer is a well-formed 2xx has called the
\* delete client once and sent one request, the contract's one, and leaves the
\* exit code unset.
C10_OneContractRequest ==
    (pc = "done" /\ exitCode = <<>> /\ attempt = 0) =>
        /\ ValidationPassed
        /\ Len(SelectSeq(trace, IsDeleteStart)) = 1
        /\ requests = <<ContractRequest>>
        /\ Len(SelectSeq(trace, IsFetch)) = 1

\* C10 witness: a delete-by-key run answered 2xx at once, key and repository
\* identifier being different strings.
C10_Witness ==
    /\ pc = "done" /\ exitCode = <<>> /\ attempt = 0
    /\ Len(requests) = 1
    /\ deleteKeyOf(env) = <<"k","1">>
    /\ requests[1].body[1][2] # requests[1].body[2][2]

\* The value of member name of a request body.
BodyMember(req, name) ==
    LET i == CHOOSE i \in 1..Len(req.body) : req.body[i][1] = name IN req.body[i][2]

\* C11: a docker-cache request has the repository identifier as stickydisk_key
\* (the value of repo_name) and type "dockerfile"; a delete-by-key request has
\* the delete-key input as stickydisk_key and type "stickydisk"; no other type
\* is sent and no run sends requests of both types.
C11_KeyAndTypePerMode ==
    /\ \A i \in 1..Len(requests) :
          LET type == BodyMember(requests[i], "type")
              key  == BodyMember(requests[i], "stickydisk_key")
              repo == BodyMember(requests[i], "repo_name")
          IN  /\ repo = repoNameOf(env).val
              /\ type \in { <<"s","t","i","c","k","y","d","i","s","k">>,
                            <<"d","o","c","k","e","r","f","i","l","e">> }
              /\ deleteDockerCacheOf(env) =>
                    type = <<"d","o","c","k","e","r","f","i","l","e">> /\ key = repo
              /\ deleteKeyOf(env) # <<>> =>
                    /\ type = <<"s","t","i","c","k","y","d","i","s","k">>
                    /\ key = Trim(env["INPUT_DELETE-KEY"].val)
    /\ \A i, j \in 1..Len(requests) :
          BodyMember(requests[i], "type") = BodyMember(requests[j], "type")

\* C11 witness: a docker-cache run has sent its request.
C11_Witness ==
    /\ deleteDockerCacheOf(env) /\ Len(requests) = 1
    /\ BodyMember(requests[1], "stickydisk_key") = <<"o","/","a">>
    /\ BodyMember(requests[1], "type") = STR_dockerfile

\* The URL every request must have when the base URL is base.
UrlWithBase(base) ==
    \A i \in 1..Len(requests) :
        requests[i].url = base \o <<"/","s","t","i","c","k","y","d","i","s","k","s">>

StagingTag ==
    env["BLACKSMITH_ENV"].set
        /\ Includes(env["BLACKSMITH_ENV"].val, <<"s","t","a","g","i","n","g">>)

\* C12 as stated: the override is used verbatim whenever BLACKSMITH_BACKEND_URL
\* is set, the empty string included; else the staging host when BLACKSMITH_ENV
\* contains "staging"; else the production host.
C12_OverrideWheneverSet ==
    UrlWithBase(IF env["BLACKSMITH_BACKEND_URL"].set
                THEN env["BLACKSMITH_BACKEND_URL"].val
                ELSE IF StagingTag THEN STR_stagingUrl ELSE STR_productionUrl)

\* C12 amended: the override is used verbatim when BLACKSMITH_BACKEND_URL holds
\* a non-empty value, also when BLACKSMITH_ENV contains "staging"; an unset or
\* empty override gives the staging host when BLACKSMITH_ENV contains
\* "staging" and the production host otherwise.
C12_OverrideWhenNonEmpty ==
    UrlWithBase(IF env["BLACKSMITH_BACKEND_URL"].set
                   /\ env["BLACKSMITH_BACKEND_URL"].val # <<>>
                THEN env["BLACKSMITH_BACKEND_URL"].val
                ELSE IF StagingTag THEN STR_stagingUrl ELSE STR_productionUrl)

\* C12 witness: a request sent to the override although the tag says staging.
C12_Witness ==
    /\ Len(requests) = 1 /\ StagingTag
    /\ env["BLACKSMITH_BACKEND_URL"] = SetTo(<<"h",":","/","/","c">>)
    /\ requests[1].url = <<"h",":","/","/","c">> \o STR_path

ArmTag ==
    env["BLACKSMITH_ENV"].set /\ Includes(env["BLACKSMITH_ENV"].val, <<"a","r","m">>)

\* C13: the arch member of every request is "arm64" exactly when BLACKSMITH_ENV
\* is set and contains "arm", and "amd64" otherwise, whatever the base URL
\* resolution gives.
C13_ArchFromEnvTag ==
    \A i \in 1..Len(requests) :
        BodyMember(requests[i], "arch") =
            IF ArmTag THEN <<"a","r","m","6","4">> ELSE <<"a","m","d","6","4">>

\* C13 witness: a tag with both "staging" and "arm" and a backend URL override:
\* the request goes to the override with arch "arm64".
C13_Witness ==
    /\ Len(requests) = 1 /\ StagingTag /\ ArmTag
    /\ Truthy(env["BLACKSMITH_BACKEND_URL"])
    /\ BodyMember(requests[1], "arch") = STR_arm64

\* The number of events among the first i of the trace that satisfy Test.
CountUpTo(i, Test(_)) ==
    Cardinality({j \in 1..i : Test(trace[j])})

\* C14: no wait precedes attempt 1, and for n >= 2 the event right before the
\* request of attempt n is the one wait made since attempt n - 1, lasting
\* initialBackoffMs * 2^(n-2).
C14_WaitBeforeAttempt ==
    \A i \in 1..Len(trace) :
        IsFetch(trace[i]) =>
            LET n == CountUpTo(i, IsFetch) IN
            /\ CountUpTo(i, IsSetTimeout) = n - 1
            /\ n >= 2 =>
                  /\ trace[i - 1].ev = "setTimeout"
                  /\ trace[i - 1].n = initialBackoffMs * 2^(n - 2)

\* C14 witness: the defaults, five attempts made after waits of 200, 400, 800
\* and 1600 ms.
C14_Witness ==
    /\ maxRetries = 5 /\ initialBackoffMs = 200
    /\ pc = "fetch" /\ CountUpTo(Len(trace), IsFetch) = 5
    /\ Waits = <<200, 400, 800, 1600>>

\* What the i-th retry line of a run must say when the wait after it lasts ms.
RetryLineText(i, ms) ==
    MSG_retry1 \o NumToStr(i) \o <<"/">> \o NumToStr(maxRetries) \o MSG_retry3
        \o NumToStr(ms) \o MSG_retry4

\* The i-th retry line comes after the request of attempt i and before any
\* later request, is followed at once by the wait, and reports attempt i,
\* maxRetries and the duration of that wait.
RetryLinesInOrder ==
    \A p \in 1..Len(trace) :
        IsRetryLine(trace[p]) =>
            LET i == CountUpTo(p, IsRetryLine) IN
            /\ CountUpTo(p, IsFetch) = i
            /\ CountUpTo(p, IsSetTimeout) = i - 1
            /\ p < Len(trace)
            /\ trace[p + 1].ev = "setTimeout"
            /\ trace[p].text = RetryLineText(i, trace[p + 1].n)
            /\ p + 2 <= Len(trace) => IsFetch(trace[p + 2])

\* C15 as stated: every completed run has one retry line less than requests,
\* the lines being placed and worded as above.
C15_RetryLinesEveryRun ==
    /\ RetryLinesInOrder
    /\ pc = "done" =>
          Len(SelectSeq(trace, IsRetryLine)) = Len(requests) - 1

\* C15 amended: every completed run that made at least one request has one
\* retry line less than requests, the lines being placed and worded as above.
C15_RetryLinesPerAttempt ==
    /\ RetryLinesInOrder
    /\ (pc = "done" /\ requests # <<>>) =>
          /\ Len(SelectSeq(trace, IsRetryLine)) = Len(requests) - 1
          /\ \A p \in 1..Len(trace) : IsRetryLine(trace[p]) => p + 2 <= Len(trace)

\* C15 witness: a completed run of three attempts with its two retry lines.
C15_Witness ==
    /\ pc = "done" /\ Len(requests) = 3
    /\ Len(SelectSeq(trace, IsRetryLine)) = 2
    /\ SelectSeq(trace, IsRetryLine)[2].text = RetryLine(1, 5, 400)

\* C19: a 2xx answer whose body does not decode as JSON ends the run at once
\* with exit code 1, without a wait or a further request, whatever the
\* message of the decoding error.
C19_ParseFailureNeverRetried ==
    [][ (pc = "json" /\ AttemptFails) =>
            /\ pc' = "done" /\ exitCode' = <<1>>
            /\ requests' = requests /\ Waits' = Waits
      ]_vars

\* C20: a rejected fetch() whose error has no status field ends the run at
\* once with exit code 1, without a wait or a further request, whatever the
\* message of the error.
C20_TransportFailureNeverRetried ==
    [][ (pc = "fetch" /\ AttemptFails /\ ~thrown'[1].hasStatus) =>
            /\ pc' = "done" /\ exitCode' = <<1>>
            /\ requests' = requests /\ Waits' = Waits
      ]_vars

-----------------------------------------------------------------------------
\* C16: at every point of every run at most one network request is in flight
\* and none is in flight while a backoff wait is pending; a retry (attempt
\* n+1) is issued only in the step in which the one pending wait elapses, and
\* that wait was started only after attempt n had completed.
C16_OneSuspensionAtATime ==
    /\ [](inFlight <= 1 /\ timers <= 1 /\ inFlight + timers <= 1)
    /\ [][ /\ Len(requests') > Len(requests) =>
                /\ Len(requests') = Len(requests) + 1
                /\ inFlight' = 1 /\ timers' = 0
                /\ attempt' >= 1 => /\ inFlight = 0 /\ timers = 1
                                    /\ IsSetTimeout(trace[Len(trace)])
           /\ timers' > timers => /\ inFlight' = 0
                                  /\ requests' = requests ]_vars

\* A wait is pending after the second attempt has completed.
C16_Witness ==
    /\ Len(requests) >= 2
    /\ timers = 1
    /\ inFlight = 0

-----------------------------------------------------------------------------
\* The legacy run has reported one of its two missing-value errors.
LegacyMissingValueReported ==
    \E i \in 1..Len(trace) :
        \/ trace[i] = logError(PlainError(MSG_tokenRequired))
        \/ trace[i] = logError(PlainError(MSG_legacyRepoRequired))

\* C17 as stated: in every configuration that passes the extended validation
\* the legacy validation passes too, so the legacy run, once past its
\* validation step, has not reported a missing-value error.
C17_ExtendedAcceptsLegacyAccepts ==
    (ValidationPassed /\ pc # "start") =>
        /\ LegacyValidate(env) = <<>>
        /\ ~LegacyMissingValueReported

\* C17, amended: in every configuration that passes the extended validation
\* and in which GITHUB_REPOSITORY holds a non-empty value, the legacy
\* validation passes too and the legacy run, once past its validation step,
\* has not reported a missing-value error.
C17_AcceptsWithRepository ==
    (ValidationPassed /\ Truthy(env["GITHUB_REPOSITORY"]) /\ pc # "start") =>
        /\ LegacyValidate(env) = <<>>
        /\ ~LegacyMissingValueReported

\* A legacy run got past its validation in a configuration the extended
\* variant accepts and that also sets GITHUB_REPO_NAME.
C17_Witness ==
    /\ ValidationPassed
    /\ Truthy(env["GITHUB_REPOSITORY"])
    /\ Truthy(env["GITHUB_REPO_NAME"])
    /\ pc = "done"
    /\ exitCode = <<>>

-----------------------------------------------------------------------------
\* The legacy wire contract for the run's key, token and repository.
LegacyContractRequest ==
    [url |-> getBlacksmithAPIUrl(env)
                \o <<"/","s","t","i","c","k","y","d","i","s","k","s","/","c","a","c","h","e","/","b","y","-","k","e","y">>,
     method |-> <<"D","E","L","E","T","E">>,
     headers |-> { <<"Authorization",
                     <<"B","e","a","r","e","r"," ">> \o env["BLACKSMITH_STICKYDISK_TOKEN"].val>>,
                   <<"X-Github-Repo-Name", env["GITHUB_REPOSITORY"].val>>,
                   <<"Content-Type", STR_applicationJson>> },
     body |-> << <<"key", Trim(env["INPUT_DELETE-KEY"].val)>> >>]

\* C18: a legacy run in docker-cache mode with the token and GITHUB_REPOSITORY
\* present makes no network request and leaves the exit code unset; a legacy
\* run in delete-by-key mode that passed validation sends its requests as
\* DELETE {apiBaseUrl}/stickydisks/cache/by-key with the headers Authorization,
\* X-Github-Repo-Name and Content-Type and the body {key}, at least one of them.
C18_LegacyDockerStubAndKeyRequest ==
    /\ ( /\ deleteDockerCacheOf(env) /\ deleteKeyOf(env) = <<>>
         /\ Truthy(env["BLACKSMITH_STICKYDISK_TOKEN"])
         /\ Truthy(env["GITHUB_REPOSITORY"]) )
        => /\ requests = <<>>
           /\ exitCode = <<>>
           /\ pc # "start" => pc = "done"
    /\ ( /\ deleteKeyOf(env) # <<>> /\ LegacyValidate(env) = <<>>
         /\ pc # "start" )
        => /\ requests # <<>>
           /\ \A i \in 1..Len(requests) : requests[i] = LegacyContractRequest

\* A docker-cache run of the legacy variant has ended.
C18_Witness ==
    /\ deleteDockerCacheOf(env)
    /\ Truthy(env["BLACKSMITH_STICKYDISK_TOKEN"])
    /\ Truthy(env["GITHUB_REPOSITORY"])
    /\ pc = "done"
    /\ trace = <<logInfo(MSG_deletingDocker)>>

-----------------------------------------------------------------------------
\* The repository identifier with a fallback on every value that is not a
\* non-empty string.
RepoIdentifierNonEmptyFirst ==
    IF Truthy(env["GITHUB_REPO_NAME"])
    THEN env["GITHUB_REPO_NAME"].val
    ELSE env["GITHUB_REPOSITORY"].val

\* The run has reported the missing-repository error.
RepoRequiredReported ==
    \E i \in 1..Len(trace) : trace[i] = logError(PlainError(MSG_repoRequired))

\* C21: in a run with one mode selected and the token present, the
\* missing-repository error is reported if and only if neither
\* GITHUB_REPO_NAME nor GITHUB_REPOSITORY holds a non-empty value, and every
\* request names GITHUB_REPO_NAME when that is non-empty and GITHUB_REPOSITORY
\* otherwise.
C21_RepoFallsBackWhenEmpty ==
    (ModeCheck(env) = <<>> /\ Truthy(env["BLACKSMITH_STICKYDISK_TOKEN"]) /\ pc # "start") =>
        /\ RepoRequiredReported <=>
               (~Truthy(env["GITHUB_REPO_NAME"]) /\ ~Truthy(env["GITHUB_REPOSITORY"]))
        /\ \A i \in 1..Len(requests) :
               BodyMember(requests[i], "repo_name") = RepoIdentifierNonEmptyFirst

-----------------------------------------------------------------------------
RECURSIVE SumSeq(_)
\* The sum of a sequence of numbers.
SumSeq(q) ==
    IF q = <<>> THEN 0 ELSE q[1] + SumSeq(Tail(q))

\* Twice initialDelayMs * (2^(maxAttempts-1) - 1), which is an integer for
\* maxAttempts = 0 as well.
TwiceWaitBound ==
    initialBackoffMs * (2^maxRetries - 2)

-----------------------------------------------------------------------------
\* The last thing the run did was to log the entity id of a successful delete.
EndsWithSuccess ==
    /\ trace # <<>>
    /\ trace[Len(trace)].ev = "stdout"
    /\ StartsWith(trace[Len(trace)].text, MSG_entityId)

\* The run is over, with the exit code unset after a success or with exit code 1.
Terminated ==
    /\ pc = "done"
    /\ inFlight = 0 /\ timers = 0
    /\ \/ exitCode = <<1>>
       \/ exitCode = <<>> /\ EndsWithSuccess

\* C23: when every request eventually settles and every backoff timer
\* eventually fires, every run terminates, whatever the answers are, with the
\* exit code unset after a success or with exit code 1.
C23_EveryRunTerminates ==
    <>Terminated

\* A run that met only retryable failures has ended after maxRetries attempts.
C23_Witness ==
    /\ Terminated
    /\ maxRetries >= 2
    /\ Len(requests) = maxRetries
    /\ Len(Waits) = maxRetries - 1
    /\ exitCode = <<1>>

-----------------------------------------------------------------------------
\* The six validation checks in the order claimed: whether the check fails on
\* this run's environment, and the message it reports.
OrderedChecks ==
    << <<deleteKeyOf(env) # <<>> /\ deleteDockerCacheOf(env), MSG_onlyOne>>,
       <<deleteKeyOf(env) = <<>> /\ ~deleteDockerCacheOf(env), MSG_eitherOne>>,
       <<~Truthy(env["BLACKSMITH_STICKYDISK_TOKEN"]), MSG_tokenRequired>>,
       <<~Truthy(repoNameOf(env)), MSG_repoRequired>>,
       <<~Truthy(env["BLACKSMITH_INSTALLATION_MODEL_ID"]), MSG_modelRequired>>,
       <<~Truthy(env["BLACKSMITH_REGION"]), MSG_regionRequired>> >>

\* The checks that fail on this run's environment.
FailingChecks ==
    {i \in 1..Len(OrderedChecks) : OrderedChecks[i][1]}

\* The earliest failing check.
FirstFailing ==
    CHOOSE i \in FailingChecks : \A j \in FailingChecks : i <= j

\* C24: when one or more validation checks fail, the run reports exactly one
\* error, the one of the earliest failing check in the order both-modes,
\* neither-mode, token, repository identifier, installation model id, region,
\* and ends with exit code 1 without a request.
C24_FirstFailingCheckReported ==
    (pc # "start" /\ FailingChecks # {}) =>
        /\ SelectSeq(trace, IsErrorLine)
              = <<logError(PlainError(OrderedChecks[FirstFailing][2]))>>
        /\ pc = "done"
        /\ exitCode = <<1>>
        /\ requests = <<>>

\* A run with both modes selected and token and region missing has ended.
C24_Witness ==
    /\ pc = "done"
    /\ {1, 3, 6} \subseteq FailingChecks
    /\ exitCode = <<1>>

-----------------------------------------------------------------------------
\* The delete-docker-cache input is "true" between any whitespace.
DockerCacheSelected ==
    LET v == env["INPUT_DELETE-DOCKER-CACHE"].val IN
    /\ env["INPUT_DELETE-DOCKER-CACHE"].set
    /\ \E i \in 0..Len(v) : \E j \in i..Len(v) :
          /\ SubSeq(v, i + 1, j) = <<"t","r","u","e">>
          /\ \A k \in (1..i) \cup ((j + 1)..Len(v)) : v[k] \in WhiteSpace

\* The delete-key input holds a character that is not whitespace.
KeySelected ==
    LET v == env["INPUT_DELETE-KEY"].val IN
    /\ env["INPUT_DELETE-KEY"].set
    /\ \E k \in 1..Len(v) : v[k] \notin WhiteSpace

\* C25: a run whose delete-docker-cache input is not "true" after trimming and
\* whose delete-key input is absent, empty or whitespace-only reports that
\* either mode must be specified and ends with exit code 1 and no request;
\* a request of type dockerfile is sent only when the flag is "true" after
\* trimming, one of type stickydisk only when the key is not blank, and a
\* run with both selected reports that only one may be specified.
C25_ModeSelectedOnlyByExactValue ==
    pc # "start" =>
        /\ (~DockerCacheSelected /\ ~KeySelected) =>
              /\ SelectSeq(trace, IsErrorLine) = <<logError(PlainError(MSG_eitherOne))>>
              /\ pc = "done" /\ exitCode = <<1>> /\ requests = <<>>
        /\ (DockerCacheSelected /\ KeySelected) =>
              /\ SelectSeq(trace, IsErrorLine) = <<logError(PlainError(MSG_onlyOne))>>
              /\ pc = "done" /\ exitCode = <<1>> /\ requests = <<>>
        /\ \A i \in 1..Len(requests) :
              /\ BodyMember(requests[i], "type") = STR_dockerfile
                    <=> (DockerCacheSelected /\ ~KeySelected)
              /\ BodyMember(requests[i], "type") = STR_stickydisk
                    <=> (KeySelected /\ ~DockerCacheSelected)
        /\ (DockerCacheSelected # KeySelected /\ EnvCheck(env) = <<>>) => requests # <<>>

\* A run with the flag "True", a whitespace-only key and every required value
\* present has ended.
C25_Witness ==
    /\ pc = "done"
    /\ env["INPUT_DELETE-DOCKER-CACHE"] = SetTo(<<"T","r","u","e">>)
    /\ env["INPUT_DELETE-KEY"] = SetTo(<<" ">>)
    /\ EnvCheck(env) = <<>>
    /\ exitCode = <<1>>
    /\ requests = <<>>

====
